---- MODULE Spec2Model ----
(***************************************************************************)
(* Model of the orbit-determination post-processing of Tudat               *)
(* (Tudat/Astrodynamics/OrbitDetermination/podProcessing.h): collation of  *)
(* the nested observation map, ordering of the information matrix by       *)
(* observation time, and the covariance history as a function of time;     *)
(* and of the capture leg of                                               *)
(* Tudat/Astrodynamics/TrajectoryDesign/captureLeg.cpp.                    *)
(*                                                                         *)
(* Times and matrix entries are integers.  An inverse is kept exactly, as  *)
(* an integer matrix over a common denominator; denominator 0 stands for   *)
(* the non-finite result Eigen produces for a singular matrix.             *)
(* C++ indices are 0-based: At(s, i) reads element i of a vector.          *)
(***************************************************************************)
EXTENDS Integers, Sequences, FiniteSets, TLC

VARIABLES
    measurementData,        \* PodInputType: observable types in map order
    informationMatrix,      \* typeAndLinkSortedNormalizedInformationMatrix
    normalizationFactors,   \* normalizationFactors
    outputTimeStep,         \* outputTimeStep
    diagonalOfWeightMatrix, \* diagonalOfWeightMatrix
    inverseAPriori,         \* normalizedInverseAPrioriCovariance
    pc,                     \* position in the called function
    error,                  \* message of the runtime_error thrown, "" if none
    timeOrder,              \* timeOrder
    orderedTimeVector,      \* orderedTimeVector
    timeOrderedMatrix,      \* timeOrderedMatrixOutput.first
    timeOrderedWeights,     \* timeOrderedDiagonalOfWeightMatrix
    currentTime,            \* currentTime
    currentIndex,           \* currentIndex
    iterations,             \* number of executions of the loop body
    history,                \* covarianceMatrixHistory
    includedRows,           \* per key of history: rows of the block it was computed from
    concatenatedTimes,      \* result of getConcatenatedTimeVector
    concatenatedObservations, \* result of getConcatenatedMeasurementVector
    lookedUpIndex,          \* currentIndex as the lookup of line 243 returned it
    velocityAfterDeparture_,  \* CaptureLeg::velocityAfterDeparture_
    deltaV_,                  \* CaptureLeg::deltaV_
    timeOfFlight_,            \* CaptureLeg::timeOfFlight_
    departureBodyPosition_,   \* CaptureLeg::departureBodyPosition_
    departureBodyVelocity_,   \* CaptureLeg::departureBodyVelocity_
    velocityBeforeDepartureBody, \* *velocityBeforeDepartureBodyPtr_
    captureOrbit,             \* gravitational parameter, semi-major axis, eccentricity
    positionVector,           \* the caller's positionVector after the last call
    timeVector,               \* the caller's timeVector after the last call
    deltaVVector,             \* the caller's deltaVVector after the last call
    legCalls,                 \* the calls made on the leg: [name, startingTime]
    calculateLegCalls         \* per call made, the number of runs of calculateLeg in it

vars == << measurementData, informationMatrix, normalizationFactors, outputTimeStep,
           diagonalOfWeightMatrix, inverseAPriori, pc, error, timeOrder,
           orderedTimeVector, timeOrderedMatrix, timeOrderedWeights, currentTime,
           currentIndex, iterations, history, includedRows, concatenatedTimes,
           concatenatedObservations, lookedUpIndex, velocityAfterDeparture_, deltaV_,
           timeOfFlight_, departureBodyPosition_, departureBodyVelocity_,
           velocityBeforeDepartureBody, captureOrbit, positionVector, timeVector,
           deltaVVector, legCalls, calculateLegCalls >>

\* the state of a CaptureLeg and of its caller
captureLeg == << velocityAfterDeparture_, deltaV_, timeOfFlight_, departureBodyPosition_,
                 departureBodyVelocity_, velocityBeforeDepartureBody, captureOrbit,
                 positionVector, timeVector, deltaVVector, legCalls, calculateLegCalls >>

inputs == << measurementData, informationMatrix, normalizationFactors, outputTimeStep,
             diagonalOfWeightMatrix, inverseAPriori >>

\* ------------------------------------------------------------------ bounds
MaxTime == 3
MaxOutputTimeStep == 2
MaxIterations == 4
MaxParameters == 2
MaxPattern == 2
MaxObservations == 4
MaxEstimationObservations == 3
MaxCollatedSamples == 3
MaxObservableSize == 3
MaxLinkEnds == 2
MaxObservableTypes == 2
MaxLegCalls == 3
MaxLegValue == 1

\* ------------------------------------------------------- vectors, matrices
At(s, i) == s[i + 1]

Abs(x) == IF x < 0 THEN 0 - x ELSE x

RECURSIVE SumTo(_, _)
SumTo(f, n) == IF n = 0 THEN 0 ELSE f[n] + SumTo(f, n - 1)

Rows(m) == Len(m)

Cols(m) == Len(m[1])

\* a vector or a matrix given entry by entry, evaluated once into a tuple
Vector(f) == SubSeq(f, 1, Len(f))

Matrix(m) == Vector([i \in 1..Len(m) |-> Vector(m[i])])

Zero(r, c) == Matrix([i \in 1..r |-> [j \in 1..c |-> 0]])

ZeroVector(n) == Vector([i \in 1..n |-> 0])

Transpose(m) == Matrix([j \in 1..Cols(m) |-> [i \in 1..Rows(m) |-> m[i][j]]])

MatMul(a, b) ==
    Matrix([i \in 1..Rows(a) |-> [j \in 1..Cols(b) |->
        SumTo([k \in 1..Cols(a) |-> a[i][k] * b[k][j]], Cols(a))]])

MatAdd(a, b) ==
    Matrix([i \in 1..Rows(a) |-> [j \in 1..Cols(a) |-> a[i][j] + b[i][j]]])

AsDiagonal(v) ==
    Matrix([i \in 1..Len(v) |-> [j \in 1..Len(v) |-> IF i = j THEN v[i] ELSE 0]])

\* m.block( 0, 0, r, c )
Block(m, r, c) == Matrix([i \in 1..r |-> [j \in 1..c |-> m[i][j]]])

\* n ones in place of the first n entries
SegmentOfOnes(v, n) == [i \in 1..n |-> 1]

\* v.segment( 0, n )
Segment(v, n) == SubSeq(v, 1, n)

\* m with row i and column j removed
Minor(m, i, j) ==
    Matrix([a \in 1..(Rows(m) - 1) |-> [b \in 1..(Cols(m) - 1) |->
        m[IF a < i THEN a ELSE a + 1][IF b < j THEN b ELSE b + 1]]])

RECURSIVE Det(_)
Det(m) ==
    IF Rows(m) = 1 THEN m[1][1]
    ELSE SumTo([j \in 1..Cols(m) |->
                  (IF j % 2 = 1 THEN 1 ELSE 0 - 1) * m[1][j] * Det(Minor(m, 1, j))],
               Cols(m))

Adjugate(m) ==
    IF Rows(m) = 1 THEN << << 1 >> >>
    ELSE Matrix([i \in 1..Rows(m) |-> [j \in 1..Cols(m) |->
            (IF (i + j) % 2 = 0 THEN 1 ELSE 0 - 1) * Det(Minor(m, j, i))]])

\* The matrix num / den, kept with den > 0; den = 0 is a matrix of non-finite
\* entries, whatever num is.
Fraction(num, den) ==
    IF den = 0 THEN [num |-> Zero(Rows(num), Cols(num)), den |-> 0]
    ELSE IF den > 0 THEN [num |-> num, den |-> den]
    ELSE [num |-> Matrix([i \in 1..Rows(num) |->
                             [j \in 1..Cols(num) |-> 0 - num[i][j]]]),
          den |-> 0 - den]

\* Eigen's m.inverse( ) of an integer matrix
Inverse(m) == Fraction(Adjugate(m), Det(m))

FractionMul(a, b) == Fraction(MatMul(a.num, b.num), a.den * b.den)

\* ------------------------------------------------------- external routines
\* observation_models::getObservableSize: the fixed dimension of an observable type
GetObservableSize(observable) == observable.size

\* OrbitDeterminationManager::getNumberOfObservationsPerObservable( ... ).second
RECURSIVE NumberOfObservationsOfLinks(_, _, _)
NumberOfObservationsOfLinks(links, size, n) ==
    IF n = 0 THEN 0
    ELSE Len(links[n].times) * size + NumberOfObservationsOfLinks(links, size, n - 1)

RECURSIVE TotalNumberOfObservations(_, _)
TotalNumberOfObservations(data, n) ==
    IF n = 0 THEN 0
    ELSE NumberOfObservationsOfLinks(data[n].links, GetObservableSize(data[n]),
                                     Len(data[n].links))
         + TotalNumberOfObservations(data, n - 1)

\* utilities::getSortOrderOfVectorAndSortedVector: the stable ascending sort of a
\* vector, as (order, sorted vector); order[ i ] is the index the entry of rank i had
SortRank(times, i) ==
    Cardinality({j \in 0..(Len(times) - 1) :
                    \/ At(times, j) < At(times, i)
                    \/ At(times, j) = At(times, i) /\ j < i})

GetSortOrderOfVectorAndSortedVector(times) ==
    LET order == Vector([r \in 1..Len(times) |->
                     CHOOSE i \in 0..(Len(times) - 1) : SortRank(times, i) = r - 1])
    IN  [first |-> order,
         second |-> Vector([r \in 1..Len(times) |-> At(times, order[r])])]

\* interpolators::BinarySearchLookupScheme::findNearestLowerNeighbour: the largest
\* index whose time is <= the query, clamped to [ 0, N - 1 ]
FindNearestLowerNeighbour(sorted, t) ==
    LET below == {i \in 0..(Len(sorted) - 1) : At(sorted, i) <= t}
    IN  IF below = {} THEN 0 ELSE CHOOSE i \in below : \A j \in below : j <= i

\* linear_algebra::calculateInverseOfUpdatedCovarianceMatrix:
\* a-priori inverse + H^T * diag( w ) * H
CalculateInverseOfUpdatedCovarianceMatrix(h, w, aPriori) ==
    MatAdd(aPriori, MatMul(MatMul(Transpose(h), AsDiagonal(w)), h))

\* ---------------------------------------------------------------- collator
\* lines 55-63: every time tag copied size times before the next one
RECURSIVE CopyTimeTags(_, _, _)
CopyTimeTags(originalTimesList, size, i) ==
    IF i = 0 THEN << >>
    ELSE CopyTimeTags(originalTimesList, size, i - 1)
         \o Vector([j \in 1..size |-> originalTimesList[i]])

\* whole list repeated size times: t1,t2,t1,t2 instead of t1,t1,t2,t2
RECURSIVE CopyTimeListRepeatedly(_, _, _)
CopyTimeListRepeatedly(originalTimesList, size, i) ==
    IF size = 0 THEN << >>
    ELSE originalTimesList \o CopyTimeListRepeatedly(originalTimesList, size - 1, i)

CurrentTimesList(originalTimesList, size, i) == CopyTimeTags(originalTimesList, size, i)

\* the body of the loop over link ends, lines 46-68
TimesOfLinkEnds(link, currentObservableSize) ==
    IF currentObservableSize = 1 THEN link.times
    ELSE CurrentTimesList(link.times, currentObservableSize, Len(link.times))

RECURSIVE TimesOfObservable(_, _, _)
TimesOfObservable(links, currentObservableSize, n) ==
    IF n = 0 THEN << >>
    ELSE TimesOfObservable(links, currentObservableSize, n - 1)
         \o TimesOfLinkEnds(links[n], currentObservableSize)

RECURSIVE ConcatenateTimes(_, _)
ConcatenateTimes(data, n) ==
    IF n = 0 THEN << >>
    ELSE ConcatenateTimes(data, n - 1)
         \o TimesOfObservable(data[n].links, GetObservableSize(data[n]), Len(data[n].links))

GetConcatenatedTimeVector(data) == ConcatenateTimes(data, Len(data))

\* v.segment( start, Len( block ) ) = block, for a segment that lies inside v
SetSegment(v, start, block) ==
    Vector([k \in 1..Len(v) |->
        IF start < k /\ k <= start + Len(block) THEN block[k - start] ELSE v[k]])

\* lines 104-105 for every (observable type, link ends) up to position (a, b):
\* the vector and currentIndex after that entry
NextCurrentIndexSamples(currentIndex0, link) == currentIndex0 + Len(link.times)

NextCurrentIndex(currentIndex0, link) == currentIndex0 + Len(link.observations)

RECURSIVE MeasurementsOfObservable(_, _, _)
MeasurementsOfObservable(state, links, n) ==
    IF n = 0 THEN state
    ELSE LET before == MeasurementsOfObservable(state, links, n - 1)
         IN  [vector |-> SetSegment(before.vector, before.index, links[n].observations),
              index |-> NextCurrentIndex(before.index, links[n])]

RECURSIVE ConcatenateMeasurements(_, _, _)
ConcatenateMeasurements(state, data, n) ==
    IF n = 0 THEN state
    ELSE MeasurementsOfObservable(ConcatenateMeasurements(state, data, n - 1),
                                  data[n].links, Len(data[n].links))

GetConcatenatedMeasurementVector(data) ==
    LET totalNumberOfObservations == TotalNumberOfObservations(data, Len(data))
    IN  ConcatenateMeasurements([vector |-> ZeroVector(totalNumberOfObservations),
                                 index |-> 0], data, Len(data)).vector

\* --------------------------------------------------------------- reindexer
\* line 158: the second member of the returned pair
UnsortedTimesReturned(concatenatedTimes0, sortOutput) == concatenatedTimes0

SortedTimesReturned(concatenatedTimes0, sortOutput) == sortOutput.second

\* lines 149-155: row i of the sorted matrix is row timeVectorSortOrder[ i ]
SortedMatrix(matrix, timeVectorSortOrder) ==
    Matrix([i \in 1..Rows(matrix) |->
        IF i <= Len(timeVectorSortOrder) THEN At(matrix, timeVectorSortOrder[i])
        ELSE [j \in 1..Cols(matrix) |-> 0]])

\* the matrix reordered without the size check of lines 140-145
GetTimeOrderedInformationMatrixUnchecked(data, typeAndLinkSortedInformationMatrix) ==
    LET times == GetConcatenatedTimeVector(data)
        sortOutput == GetSortOrderOfVectorAndSortedVector(times)
    IN  [error |-> "", timeOrder |-> sortOutput.first,
         first |-> SortedMatrix(typeAndLinkSortedInformationMatrix, sortOutput.first),
         second |-> SortedTimesReturned(times, sortOutput)]

\* lines 126-159
GetTimeOrderedInformationMatrix(data, typeAndLinkSortedInformationMatrix) ==
    LET times == GetConcatenatedTimeVector(data)
        sortOutput == GetSortOrderOfVectorAndSortedVector(times)
        timeVectorSortOrder == sortOutput.first
    IN  IF Len(timeVectorSortOrder) # Rows(typeAndLinkSortedInformationMatrix)
        THEN [error |-> "sizes incompatible", timeOrder |-> sortOutput.first,
              first |-> << >>, second |-> << >>]
        ELSE [error |-> "", timeOrder |-> sortOutput.first,
              first |-> SortedMatrix(typeAndLinkSortedInformationMatrix,
                                     timeVectorSortOrder),
              second |-> SortedTimesReturned(times, sortOutput)]

\* ------------------------------------------------------------ orchestrator
\* lines 184-206 with the weights check left out
ConsistencyErrorWithoutWeights(aPriori, information, factors, weights) ==
    IF Cols(aPriori) # Rows(aPriori) THEN "a priori covariance is not square"
    ELSE IF Cols(information) # Cols(aPriori)
         THEN "number of parameters is inconsistent with information matrix"
    ELSE IF Len(factors) # Cols(aPriori)
         THEN "number of parameters is inconsistent with normalization factors"
    ELSE ""

\* lines 184-206: the message of the first failing check, "" when all pass
ConsistencyError(aPriori, information, factors, weights) ==
    IF Cols(aPriori) # Rows(aPriori) THEN "a priori covariance is not square"
    ELSE IF Cols(information) # Cols(aPriori)
         THEN "number of parameters is inconsistent with information matrix"
    ELSE IF Len(factors) # Cols(aPriori)
         THEN "number of parameters is inconsistent with normalization factors"
    ELSE IF Rows(information) # Len(weights)
         THEN "weights are inconsistent with partials"
    ELSE ""

\* weights left in type-and-link order
UnorderedDiagonalOfWeightMatrix(weights, order) ==
    Vector([i \in 1..Len(weights) |-> weights[i]])

\* lines 215-219
TimeOrderedDiagonalOfWeightMatrix(weights, order) ==
    Vector([i \in 1..Len(weights) |->
               IF i <= Len(order) THEN At(weights, order[i]) ELSE 0])

\* the loop left as soon as the next output time would pass the last observation
NextTimeBeforeLast(time, step, times) == time + step < At(times, Len(times) - 1)

\* the loop entered also when the output time is the last observation time
LoopWhileNotAfterLast(time, step, times) == time <= At(times, Len(times) - 1)

\* line 237
LoopCondition(time, step, times) == time < At(times, Len(times) - 1)

\* the extension that steps past the last row instead of stopping on it
RECURSIVE ExtendPastLastRow(_, _)
ExtendPastLastRow(times, index) ==
    IF index + 1 >= Len(times) THEN Len(times)
    ELSE IF At(times, index) = At(times, index + 1)
         THEN ExtendPastLastRow(times, index + 1)
    ELSE index

\* lines 247-254
RECURSIVE ExtendThroughEqualTimes(_, _)
ExtendThroughEqualTimes(times, index) ==
    IF At(times, index) = At(times, index + 1)
    THEN IF index + 1 = Len(times) - 1 THEN index + 1
         ELSE ExtendThroughEqualTimes(times, index + 1)
    ELSE index

\* the index left where the lookup put it
NotExtended(times, index) == index

\* lines 245-255
TieExtendedIndex(times, index) ==
    IF index # Len(times) - 1 THEN ExtendThroughEqualTimes(times, index) ELSE index

\* lines 263-264, 268: the number of rows of the block and of the segment
NumberOfRowsIncluded(index) == index + 1

\* every entry stored under the first observation time
KeyIsFirstTime(times, index, time) == At(times, 0)

\* the map keyed by the output time itself
KeyIsQueryTime(times, index, time) == time

\* line 269: the key of the map entry
HistoryKey(times, index, time) == At(times, index)

\* the normalized covariance multiplied by the factors, not divided
UnnormalizedByFactors(unnormalizationMatrix, inverseNormalizedCovariance) ==
    LET u == Fraction(unnormalizationMatrix, 1)
    IN  FractionMul(FractionMul(u, Inverse(inverseNormalizedCovariance)), u)

\* lines 269-270
UnnormalizedCovariance(unnormalizationMatrix, inverseNormalizedCovariance) ==
    FractionMul(FractionMul(Inverse(unnormalizationMatrix),
                            Inverse(inverseNormalizedCovariance)),
                Inverse(unnormalizationMatrix))

Put(map, key, value) ==
    [k \in DOMAIN map \cup {key} |-> IF k = key THEN value ELSE map[k]]

EmptyMap == [k \in {} |-> 0]

CheckConsistency ==
    /\ pc = "start"
    /\ LET message == ConsistencyError(inverseAPriori, informationMatrix,
                                       normalizationFactors, diagonalOfWeightMatrix)
       IN  /\ error' = message
           /\ pc' = IF message = "" THEN "order" ELSE "error"
    /\ UNCHANGED << captureLeg, inputs, timeOrder, orderedTimeVector, timeOrderedMatrix,
                    timeOrderedWeights, currentTime, currentIndex, lookedUpIndex,
                    iterations,
                    history, includedRows, concatenatedTimes,
                    concatenatedObservations >>

\* lines 208-232
OrderByTime ==
    /\ pc = "order"
    /\ LET out == GetTimeOrderedInformationMatrix(measurementData, informationMatrix)
       IN  IF out.error # ""
           THEN /\ pc' = "error"
                /\ error' = out.error
                /\ UNCHANGED << timeOrder, orderedTimeVector, timeOrderedMatrix,
                                timeOrderedWeights, currentTime >>
           ELSE /\ pc' = "loop"
                /\ error' = ""
                /\ timeOrder' = out.timeOrder
                /\ orderedTimeVector' = out.second
                /\ timeOrderedMatrix' = out.first
                /\ timeOrderedWeights' =
                       TimeOrderedDiagonalOfWeightMatrix(diagonalOfWeightMatrix,
                                                         out.timeOrder)
                /\ currentTime' = At(out.second, 0)
    /\ UNCHANGED << captureLeg, inputs, currentIndex, lookedUpIndex, iterations,
                    history, includedRows,
                    concatenatedTimes, concatenatedObservations >>

\* the output time advanced by its magnitude, whatever its sign
NextOutputTimeByMagnitude(time, step) == time + Abs(step)

\* line 240
NextOutputTime(time, step) == time + step

\* lines 245-270: the loop body from the index the lookup of line 243 returned
LoopBody(time, lookedUp) ==
    LET index == TieExtendedIndex(orderedTimeVector, lookedUp)
        rows == NumberOfRowsIncluded(index)
        currentInformationMatrix ==
            Block(timeOrderedMatrix, rows, Cols(timeOrderedMatrix))
        currentInverseNormalizedCovarianceMatrix ==
            CalculateInverseOfUpdatedCovarianceMatrix(
                currentInformationMatrix, Segment(timeOrderedWeights, rows),
                inverseAPriori)
        key == HistoryKey(orderedTimeVector, index, time)
    IN  /\ currentTime' = time
        /\ lookedUpIndex' = lookedUp
        /\ currentIndex' = index
        /\ IF Len(orderedTimeVector) <= index
           THEN /\ pc' = "error"
                /\ error' = "output time not found"
                /\ UNCHANGED << history, includedRows >>
           ELSE /\ history' =
                       Put(history, key,
                           UnnormalizedCovariance(
                               AsDiagonal(normalizationFactors),
                               currentInverseNormalizedCovarianceMatrix))
                /\ includedRows' =
                       Put(includedRows, key, Rows(currentInformationMatrix))
                /\ UNCHANGED << pc, error >>

\* lines 237-271: one execution of the loop body
LoopIteration ==
    /\ pc = "loop"
    /\ iterations < MaxIterations
    /\ LoopCondition(currentTime, outputTimeStep, orderedTimeVector)
    /\ LET time == NextOutputTime(currentTime, outputTimeStep)
       IN  LoopBody(time, FindNearestLowerNeighbour(orderedTimeVector, time))
    /\ iterations' = iterations + 1
    /\ UNCHANGED << captureLeg, inputs, timeOrder, orderedTimeVector, timeOrderedMatrix,
                    timeOrderedWeights, concatenatedTimes, concatenatedObservations >>

\* The indices of the run of equal times that holds the nearest lower neighbour of t:
\* the results of a lookup that is free to return any row of that run, the case the
\* extension of lines 245-255 is written for.
EqualTimeNeighbours(sorted, t) ==
    {i \in 0..(Len(sorted) - 1) :
        At(sorted, i) = At(sorted, FindNearestLowerNeighbour(sorted, t))}

\* lines 237-271 with the lookup of line 243 returning any row of the run
LoopIterationFromAnyNeighbour ==
    /\ pc = "loop"
    /\ iterations < MaxIterations
    /\ LoopCondition(currentTime, outputTimeStep, orderedTimeVector)
    /\ LET time == NextOutputTime(currentTime, outputTimeStep)
       IN  \E lookedUp \in EqualTimeNeighbours(orderedTimeVector, time) :
               LoopBody(time, lookedUp)
    /\ iterations' = iterations + 1
    /\ UNCHANGED << captureLeg, inputs, timeOrder, orderedTimeVector, timeOrderedMatrix,
                    timeOrderedWeights, concatenatedTimes, concatenatedObservations >>

\* line 274
ReturnHistory ==
    /\ pc = "loop"
    /\ ~LoopCondition(currentTime, outputTimeStep, orderedTimeVector)
    /\ pc' = "done"
    /\ UNCHANGED << captureLeg, inputs, error, timeOrder, orderedTimeVector, timeOrderedMatrix,
                    timeOrderedWeights, currentTime, currentIndex, lookedUpIndex,
                    iterations,
                    history, includedRows, concatenatedTimes,
                    concatenatedObservations >>

\* ------------------------------------------------------------------ inputs
\* A family of observation maps is [budget, links, spread, perSample]: at most
\* budget observations (scalar ones, or samples when perSample), at most links link
\* ends per observable, sample times spread over 0..MaxTime or packed into 0..n.
CostOfSamples(family, n, size) == IF family.perSample THEN n ELSE n * size

RECURSIVE CostOfLinks(_, _, _, _)
CostOfLinks(family, links, size, n) ==
    IF n = 0 THEN 0
    ELSE CostOfSamples(family, Len(links[n].times), size)
         + CostOfLinks(family, links, size, n - 1)

RECURSIVE CostOfData(_, _, _)
CostOfData(family, data, n) ==
    IF n = 0 THEN 0
    ELSE CostOfLinks(family, data[n].links, data[n].size, Len(data[n].links))
         + CostOfData(family, data, n - 1)

\* sample times of one (observable type, link ends) entry: n increasing times
IncreasingTimes(family, n) ==
    LET last == IF family.spread \/ MaxTime < n THEN MaxTime ELSE n
    IN  {t \in [1..n -> 0..last] : \A i \in 1..(n - 1) : t[i] < t[i + 1]}

\* entries of an observable of the given size within the budget left; every
\* observation carries the tag of its entry
LinkEndsData(family, size, left, tag) ==
    UNION {{[observations |-> [k \in 1..(n * size) |-> tag], times |-> t] :
                t \in IncreasingTimes(family, n)} :
           n \in {n \in 1..left : CostOfSamples(family, n, size) <= left}}

RECURSIVE LinkEndsSequences(_, _, _, _, _)
LinkEndsSequences(family, size, left, count, observable) ==
    IF count = 0 THEN {<< >>}
    ELSE UNION {{rest \o << l >> :
                    l \in LinkEndsData(family, size,
                                       left - CostOfLinks(family, rest, size, Len(rest)),
                                       10 * observable + count)} :
                rest \in LinkEndsSequences(family, size, left, count - 1, observable)}

ObservableData(family, left, observable) ==
    UNION {UNION {{[size |-> size, links |-> ls] :
                      ls \in LinkEndsSequences(family, size, left, count, observable)} :
                  count \in 1..family.links} : size \in 1..MaxObservableSize}

RECURSIVE PodInputsOfLength(_, _)
PodInputsOfLength(family, count) ==
    IF count = 0 THEN {<< >>}
    ELSE UNION {{rest \o << o >> :
                    o \in ObservableData(family,
                                         family.budget - CostOfData(family, rest, Len(rest)),
                                         count)} :
                rest \in PodInputsOfLength(family, count - 1)}

\* the observation maps of a family, with 1..MaxObservableTypes observable types
PodInputs(family) == UNION {PodInputsOfLength(family, c) : c \in 1..MaxObservableTypes}

\* entry (i, j), 0-based, of the information matrix of pattern p
InformationPattern(p, i, j) == IF p = 0 THEN 0 ELSE (i + j + p) % (p + 1)

\* weight of row i, 0-based: pattern 0 is all zero, pattern 1 all one
WeightPattern(p, i) == IF p = 0 THEN 0 ELSE 1 + (i % p)

\* normalization factor of parameter j, 0-based
NormalizationPattern(p, j) == 1 + ((j + p) % MaxPattern)

\* no CaptureLeg in a call of the post-processing functions
NoCaptureLeg ==
    /\ velocityAfterDeparture_ = << >>
    /\ deltaV_ = 0
    /\ timeOfFlight_ = 0
    /\ departureBodyPosition_ = << >>
    /\ departureBodyVelocity_ = << >>
    /\ velocityBeforeDepartureBody = << >>
    /\ captureOrbit = << >>
    /\ positionVector = << >>
    /\ timeVector = << >>
    /\ deltaVVector = << >>
    /\ legCalls = << >>
    /\ calculateLegCalls = << >>

InitCall ==
    /\ pc = "start"
    /\ error = ""
    /\ timeOrder = << >>
    /\ orderedTimeVector = << >>
    /\ timeOrderedMatrix = << >>
    /\ timeOrderedWeights = << >>
    /\ currentTime = 0
    /\ currentIndex = 0
    /\ iterations = 0
    /\ history = EmptyMap
    /\ includedRows = EmptyMap
    /\ concatenatedTimes = << >>
    /\ concatenatedObservations = << >>
    /\ lookedUpIndex = 0
    /\ NoCaptureLeg

\* the matrices of a call with the given shapes and value patterns
InitMatrices(hRows, hCols, aRows, aCols, nFactors, nWeights, hp, wp, ap, np) ==
    /\ informationMatrix =
           [i \in 1..hRows |-> [j \in 1..hCols |-> InformationPattern(hp, i - 1, j - 1)]]
    /\ inverseAPriori =
           [i \in 1..aRows |-> [j \in 1..aCols |-> IF i = j THEN ap ELSE 0]]
    /\ normalizationFactors = [j \in 1..nFactors |-> NormalizationPattern(np, j - 1)]
    /\ diagonalOfWeightMatrix = [i \in 1..nWeights |-> WeightPattern(wp, i - 1)]

\* calls of calculateCovarianceMatrixAsFunctionOfTime with consistent shapes,
\* unit weights and an invertible a-priori matrix, over the observation maps with
\* one set of link ends per observable and every step from -1 to MaxOutputTimeStep,
\* for MaxParameters parameters
Init ==
    /\ InitCall
    /\ measurementData \in PodInputs([budget |-> MaxObservations, links |-> 1,
                                      spread |-> TRUE, perSample |-> FALSE])
    /\ outputTimeStep \in (0 - 1)..MaxOutputTimeStep
    /\ LET n == TotalNumberOfObservations(measurementData, Len(measurementData))
           m == MaxParameters
       IN  InitMatrices(n, m, m, m, m, n, 1, 1, 1, 1)

Next == CheckConsistency \/ OrderByTime \/ LoopIteration \/ ReturnHistory

Spec == Init /\ [][Next]_vars

\* calls with consistent shapes, one parameter and a positive output time step
InitTermination ==
    /\ InitCall
    /\ measurementData \in PodInputs([budget |-> MaxEstimationObservations, links |-> 1,
                                      spread |-> TRUE, perSample |-> FALSE])
    /\ outputTimeStep \in 1..MaxOutputTimeStep
    /\ LET n == TotalNumberOfObservations(measurementData, Len(measurementData))
       IN  InitMatrices(n, 1, 1, 1, 1, n, 1, 1, 1, 1)

\* the position in the function and the number of executions of the loop body
progress == << pc, iterations >>

\* a step of a call that has not ended: a statement of the function is executed
CallProceeds ==
    \/ pc = "start" /\ pc' \in {"order", "error"} /\ iterations' = iterations
    \/ pc = "order" /\ pc' \in {"loop", "error"} /\ iterations' = iterations
    \/ /\ pc = "loop"
       /\ iterations < MaxIterations
       /\ LoopCondition(currentTime, outputTimeStep, orderedTimeVector)
       /\ iterations' = iterations + 1
       /\ pc' \in {"loop", "error"}
    \/ /\ pc = "loop"
       /\ ~LoopCondition(currentTime, outputTimeStep, orderedTimeVector)
       /\ pc' = "done"
       /\ iterations' = iterations

\* the function runs on until it returns or throws
SpecTermination == InitTermination /\ [][Next]_vars /\ WF_progress(CallProceeds)

\* calls with output time step 1: with every combination of shapes, and with
\* consistent shapes over the value patterns
InitEstimation ==
    /\ InitCall
    /\ measurementData \in PodInputs([budget |-> MaxEstimationObservations, links |-> 1,
                                      spread |-> FALSE, perSample |-> FALSE])
    /\ outputTimeStep = 1
    /\ \E m \in 1..MaxParameters :
         LET n == TotalNumberOfObservations(measurementData, Len(measurementData))
         IN  \/ \E hRows \in {n, n + 1}, hCols \in {m, m + 1}, aRows \in {m, m + 1},
                   nFactors \in {m, m + 1}, nWeights \in {n, n + 1} :
                  InitMatrices(hRows, hCols, aRows, m, nFactors, nWeights, 1, 1, 1, 1)
             \/ \E hp \in 1..MaxPattern, wp \in 0..MaxPattern, ap \in {0, 1},
                   np \in 1..MaxPattern :
                  InitMatrices(n, m, m, m, m, n, hp, wp, ap, np)

SpecEstimation == InitEstimation /\ [][Next]_vars

\* calls with consistent shapes and a positive output time step, over observation
\* maps with observables of several dimensions, with a lookup free to return any row
\* of a run of equal times
InitAnyNeighbour ==
    /\ InitCall
    /\ measurementData \in PodInputs([budget |-> MaxEstimationObservations, links |-> 1,
                                      spread |-> FALSE, perSample |-> FALSE])
    /\ outputTimeStep \in 1..MaxOutputTimeStep
    /\ \E m \in 1..MaxParameters :
         LET n == TotalNumberOfObservations(measurementData, Len(measurementData))
         IN  InitMatrices(n, m, m, m, m, n, 1, 1, 1, 1)

NextAnyNeighbour ==
    CheckConsistency \/ OrderByTime \/ LoopIterationFromAnyNeighbour \/ ReturnHistory

SpecAnyNeighbour == InitAnyNeighbour /\ [][NextAnyNeighbour]_vars

\* calls of the two collating functions
InitCollator ==
    /\ InitCall
    /\ measurementData \in PodInputs([budget |-> MaxCollatedSamples,
                                      links |-> MaxLinkEnds,
                                      spread |-> FALSE, perSample |-> TRUE])
    /\ outputTimeStep = 1
    /\ InitMatrices(1, 1, 1, 1, 1, 1, 1, 1, 1, 1)

CallGetConcatenatedTimeVector ==
    /\ pc = "start"
    /\ concatenatedTimes' = GetConcatenatedTimeVector(measurementData)
    /\ pc' = "times"
    /\ UNCHANGED << captureLeg, inputs, error, timeOrder, orderedTimeVector, timeOrderedMatrix,
                    timeOrderedWeights, currentTime, currentIndex, lookedUpIndex,
                    iterations,
                    history, includedRows, concatenatedObservations >>

CallGetConcatenatedMeasurementVector ==
    /\ pc = "times"
    /\ concatenatedObservations' = GetConcatenatedMeasurementVector(measurementData)
    /\ pc' = "done"
    /\ UNCHANGED << captureLeg, inputs, error, timeOrder, orderedTimeVector, timeOrderedMatrix,
                    timeOrderedWeights, currentTime, currentIndex, lookedUpIndex,
                    iterations,
                    history, includedRows, concatenatedTimes >>

NextCollator == CallGetConcatenatedTimeVector \/ CallGetConcatenatedMeasurementVector

SpecCollator == InitCollator /\ [][NextCollator]_vars

\* -------------------------------------------------------------- CaptureLeg
\* Tudat/Astrodynamics/TrajectoryDesign/captureLeg.cpp.  A double is a number or NaN.
NaN == [nan |-> TRUE, value |-> 0]

Number(n) == [nan |-> FALSE, value |-> n]

\* std::isnan
IsNaN(x) == x.nan

\* ( a - b ).norm( ), kept as its square; NaN as soon as a component is NaN
NormOfDifference(a, b) ==
    IF \E i \in 1..3 : IsNaN(a[i]) \/ IsNaN(b[i]) THEN NaN
    ELSE [squared |-> SumTo([i \in 1..3 |->
                                (a[i].value - b[i].value) * (a[i].value - b[i].value)],
                            3)]

\* mission_segments::computeEscapeOrCaptureDeltaV, kept as the term of its arguments
ComputeEscapeOrCaptureDeltaV(parameter, semiMajorAxis, eccentricity, excessVelocity) ==
    [gravitationalParameter |-> parameter, semiMajorAxis |-> semiMajorAxis,
     eccentricity |-> eccentricity, excessVelocity |-> excessVelocity]

\* returnTrajectory: the points along the trajectory, of which the first is the initial
\* position at the starting time
ReturnTrajectory(initialState, startingTime) ==
    [positionVector |-> << SubSeq(initialState, 1, 3) >>,
     timeVector |-> << startingTime >>]

\* the velocity after departure left as it was
VelocityLeftUnset(velocityAfterDeparture, bodyVelocity) == velocityAfterDeparture

\* line 52
VelocityAfterCalculation(velocityAfterDeparture, bodyVelocity) == bodyVelocity

\* lines 44-62: the members after calculateLeg
CalculateLeg ==
    [velocityAfterDeparture_ |->
         VelocityAfterCalculation(velocityAfterDeparture_, departureBodyVelocity_),
     deltaV_ |->
         ComputeEscapeOrCaptureDeltaV(
             captureOrbit.gravitationalParameter, captureOrbit.semiMajorAxis,
             captureOrbit.eccentricity,
             NormOfDifference(velocityBeforeDepartureBody, departureBodyVelocity_))]

\* lines 71-78 and 97-104: the leg calculated if the flag says it has not been
LegAfterTest ==
    IF IsNaN(velocityAfterDeparture_[1])
    THEN [leg |-> CalculateLeg, calculated |-> 1]
    ELSE [leg |-> [velocityAfterDeparture_ |-> velocityAfterDeparture_,
                   deltaV_ |-> deltaV_],
          calculated |-> 0]

\* lines 65-88
IntermediatePoints(startingTime) ==
    /\ pc = "leg"
    /\ Len(legCalls) < MaxLegCalls
    /\ LET after == LegAfterTest
           initialState == departureBodyPosition_ \o after.leg.velocityAfterDeparture_
           trajectory == ReturnTrajectory(initialState, startingTime)
       IN  /\ velocityAfterDeparture_' = after.leg.velocityAfterDeparture_
           /\ deltaV_' = after.leg.deltaV_
           /\ positionVector' = trajectory.positionVector
           /\ timeVector' = trajectory.timeVector
           /\ calculateLegCalls' = Append(calculateLegCalls, after.calculated)
    /\ legCalls' = Append(legCalls, [name |-> "intermediatePoints",
                                     startingTime |-> startingTime])
    /\ UNCHANGED << timeOfFlight_, departureBodyPosition_, departureBodyVelocity_,
                    velocityBeforeDepartureBody, captureOrbit, deltaVVector >>
    /\ UNCHANGED << inputs, pc, error, timeOrder, orderedTimeVector, timeOrderedMatrix,
                    timeOrderedWeights, currentTime, currentIndex, lookedUpIndex,
                    iterations, history, includedRows, concatenatedTimes,
                    concatenatedObservations >>

\* lines 91-115
Maneuvers(startingTime) ==
    /\ pc = "leg"
    /\ Len(legCalls) < MaxLegCalls
    /\ LET after == LegAfterTest
       IN  /\ velocityAfterDeparture_' = after.leg.velocityAfterDeparture_
           /\ deltaV_' = after.leg.deltaV_
           /\ positionVector' = << departureBodyPosition_ >>
           /\ timeVector' = << 0 + startingTime >>
           /\ deltaVVector' = << after.leg.deltaV_ >>
           /\ calculateLegCalls' = Append(calculateLegCalls, after.calculated)
    /\ legCalls' = Append(legCalls, [name |-> "maneuvers",
                                     startingTime |-> startingTime])
    /\ UNCHANGED << timeOfFlight_, departureBodyPosition_, departureBodyVelocity_,
                    velocityBeforeDepartureBody, captureOrbit >>
    /\ UNCHANGED << inputs, pc, error, timeOrder, orderedTimeVector, timeOrderedMatrix,
                    timeOrderedWeights, currentTime, currentIndex, lookedUpIndex,
                    iterations, history, includedRows, concatenatedTimes,
                    concatenatedObservations >>

\* lines 117-120
UpdateDefiningVariables(variableVector) ==
    /\ pc = "leg"
    /\ Len(legCalls) < MaxLegCalls
    /\ timeOfFlight_' = At(variableVector, 0)
    /\ calculateLegCalls' = Append(calculateLegCalls, 0)
    /\ legCalls' = Append(legCalls, [name |-> "updateDefiningVariables",
                                     startingTime |-> 0])
    /\ UNCHANGED << velocityAfterDeparture_, deltaV_, departureBodyPosition_,
                    departureBodyVelocity_, velocityBeforeDepartureBody, captureOrbit,
                    positionVector, timeVector, deltaVVector >>
    /\ UNCHANGED << inputs, pc, error, timeOrder, orderedTimeVector, timeOrderedMatrix,
                    timeOrderedWeights, currentTime, currentIndex, lookedUpIndex,
                    iterations, history, includedRows, concatenatedTimes,
                    concatenatedObservations >>

\* no call of the post-processing functions on a leg
NoPodCall ==
    /\ pc = "leg"
    /\ measurementData = << >>
    /\ informationMatrix = << >>
    /\ normalizationFactors = << >>
    /\ outputTimeStep = 0
    /\ diagonalOfWeightMatrix = << >>
    /\ inverseAPriori = << >>
    /\ error = ""
    /\ timeOrder = << >>
    /\ orderedTimeVector = << >>
    /\ timeOrderedMatrix = << >>
    /\ timeOrderedWeights = << >>
    /\ currentTime = 0
    /\ currentIndex = 0
    /\ lookedUpIndex = 0
    /\ iterations = 0
    /\ history = EmptyMap
    /\ includedRows = EmptyMap
    /\ concatenatedTimes = << >>
    /\ concatenatedObservations = << >>

\* velocities of the departure body, with and without a NaN first component
BodyVelocities ==
    {<< Number(1), Number(0), Number(0) >>, << Number(0), Number(2), NaN >>,
     << NaN, Number(1), Number(0) >>}

\* A leg not yet calculated: the velocity after departure is all NaN.  The caller's
\* vectors are empty or hold what an earlier use left in them.
InitCaptureLeg ==
    /\ NoPodCall
    /\ velocityAfterDeparture_ = << NaN, NaN, NaN >>
    /\ deltaV_ = NaN
    /\ timeOfFlight_ \in 1..MaxLegValue
    /\ departureBodyPosition_ \in {<< Number(p), Number(0), Number(1) >> : p \in 0..MaxLegValue}
    /\ departureBodyVelocity_ \in BodyVelocities
    /\ velocityBeforeDepartureBody \in {<< Number(v), Number(1), Number(0) >> : v \in 0..MaxLegValue}
    /\ captureOrbit = [gravitationalParameter |-> "captureBodyGravitationalParameter_",
                       semiMajorAxis |-> "semiMajorAxis_",
                       eccentricity |-> "eccentricity_"]
    /\ \E left \in {<< >>, << << NaN, NaN, NaN >>, << NaN, NaN, NaN >> >>} :
          /\ positionVector = left
          /\ timeVector = [i \in 1..Len(left) |-> 0]
          /\ deltaVVector = [i \in 1..Len(left) |-> NaN]
    /\ legCalls = << >>
    /\ calculateLegCalls = << >>

NextCaptureLeg ==
    \/ \E startingTime \in 0..MaxLegValue : IntermediatePoints(startingTime)
    \/ \E startingTime \in 0..MaxLegValue : Maneuvers(startingTime)
    \/ \E value \in 1..MaxLegValue : UpdateDefiningVariables(<< value >>)

SpecCaptureLeg == InitCaptureLeg /\ [][NextCaptureLeg]_vars

\* ------------------------------------------------------------------ claims
NumberOfTimes == Len(orderedTimeVector)

FirstObservationTime == At(orderedTimeVector, 0)

LastObservationTime == At(orderedTimeVector, NumberOfTimes - 1)

Ordered == pc \in {"loop", "done"}

GreatestKey == CHOOSE t \in DOMAIN history : \A u \in DOMAIN history : u <= t

\* the sum a-priori inverse + H_k^T diag( w_k ) H_k over the first k time-ordered rows,
\* entry (a, b)
InformationSum(k, a, b) ==
    inverseAPriori[a][b]
    + SumTo([r \in 1..k |->
                timeOrderedMatrix[r][a] * timeOrderedWeights[r] * timeOrderedMatrix[r][b]],
            k)

Delta(a, b) == IF a = b THEN 1 ELSE 0

Parameters == 1..Len(normalizationFactors)

\* the fraction c is the inverse of the sum over the first k rows, divided on both
\* sides by the normalization factors; non-finite exactly when the sum is singular
IsUnnormalizedInverse(c, k) ==
    LET sum == Matrix([a \in Parameters |-> [b \in Parameters |-> InformationSum(k, a, b)]])
    IN  IF Det(sum) = 0 THEN c.den = 0
        ELSE /\ c.den # 0
             /\ \A a \in Parameters : \A d \in Parameters :
                   SumTo([b \in Parameters |->
                             sum[a][b] * c.num[b][d] * normalizationFactors[b]
                             * normalizationFactors[d]],
                         Len(normalizationFactors))
                   = Delta(a, d) * c.den

\* C1: every entry (t, C) of the map is computed from the prefix of time-ordered rows
\* that holds every observation with timestamp <= t and none with timestamp > t, so
\* that a run of equal timestamps is never split.
C1_PrefixHoldsAllUpToKey ==
    \A t \in DOMAIN history :
        /\ \A i \in 1..NumberOfTimes :
              (i <= includedRows[t]) <=> (orderedTimeVector[i] <= t)
        /\ IsUnnormalizedInverse(history[t],
                                 Cardinality({i \in 1..NumberOfTimes :
                                                 orderedTimeVector[i] <= t}))

C1_Witness ==
    /\ pc = "done"
    /\ \E t \in DOMAIN history :
          /\ Cardinality({i \in 1..NumberOfTimes : orderedTimeVector[i] = t}) >= 2
          /\ includedRows[t] < NumberOfTimes
          /\ t > FirstObservationTime

\* C2 as stated: with dt > 0 and t0 < tLast the greatest key of the returned map is
\* strictly less than tLast when dt does not divide tLast - t0, and equal to tLast
\* when it does.
C2_LastKeyBelowLastTimeUnlessDivides ==
    (pc = "done" /\ outputTimeStep > 0 /\ FirstObservationTime < LastObservationTime)
    => /\ DOMAIN history # {}
       /\ IF (LastObservationTime - FirstObservationTime) % outputTimeStep = 0
          THEN GreatestKey = LastObservationTime
          ELSE GreatestKey < LastObservationTime

\* C2 amended: with dt > 0 and t0 < tLast the greatest key of the returned map is
\* tLast, whether or not dt divides tLast - t0: the last iteration looks up a time
\* >= tLast and stores the covariance of all rows.
C2_LastKeyIsLastTime ==
    (pc = "done" /\ outputTimeStep > 0 /\ FirstObservationTime < LastObservationTime)
    => /\ DOMAIN history # {}
       /\ GreatestKey = LastObservationTime
       /\ includedRows[GreatestKey] = NumberOfTimes

C2_Witness ==
    /\ pc = "done"
    /\ outputTimeStep > 0
    /\ (LastObservationTime - FirstObservationTime) % outputTimeStep # 0
    /\ GreatestKey = LastObservationTime

\* C3: with dt > 0 the returned map never has the first observation time as a key.
C3_NoEntryForFirstTime ==
    (pc = "done" /\ outputTimeStep > 0) => FirstObservationTime \notin DOMAIN history

\* C4: observations at times [0,1,1,3], all of dimension 1 and weight 1, two
\* parameters and dt = 2 give exactly the keys 1 and 3; key 1 is computed from the
\* three rows with times 0,1,1 and key 3 from all four rows.
C4_Scenario ==
    /\ pc = "done"
    /\ orderedTimeVector = << 0, 1, 1, 3 >>
    /\ \A a \in 1..Len(measurementData) : GetObservableSize(measurementData[a]) = 1
    /\ \A i \in 1..Len(diagonalOfWeightMatrix) : diagonalOfWeightMatrix[i] = 1
    /\ Len(normalizationFactors) = 2
    /\ outputTimeStep = 2

C4_TwoEpochs ==
    C4_Scenario
    => /\ DOMAIN history = {1, 3}
       /\ includedRows[1] = 3
       /\ includedRows[3] = 4
       /\ IsUnnormalizedInverse(history[1], 3)
       /\ IsUnnormalizedInverse(history[3], 4)

C4_Witness == C4_Scenario /\ Len(measurementData) = 2

\* the product of the normalization factors of all parameters but a
RECURSIVE ProductOfOtherFactors(_, _)
ProductOfOtherFactors(a, n) ==
    IF n = 0 THEN 1
    ELSE (IF n = a THEN 1 ELSE normalizationFactors[n]) * ProductOfOtherFactors(a, n - 1)

\* the fraction c is the inverse of the sum over the first k rows, multiplied on
\* both sides by the normalization factors
IsInverseTimesFactors(c, k) ==
    LET sum == Matrix([a \in Parameters |-> [b \in Parameters |-> InformationSum(k, a, b)]])
        all == ProductOfOtherFactors(0, Len(normalizationFactors))
    IN  IF Det(sum) = 0 THEN c.den = 0
        ELSE /\ c.den # 0
             /\ \A a \in Parameters : \A d \in Parameters :
                   SumTo([b \in Parameters |->
                             sum[a][b] * c.num[b][d]
                             * ProductOfOtherFactors(b, Len(normalizationFactors))
                             * ProductOfOtherFactors(d, Len(normalizationFactors))],
                         Len(normalizationFactors))
                   = Delta(a, d) * c.den * all * all

\* C5 as stated: the covariance stored for prefix length k is
\* U * inverse( A + H_k^T diag( w_k ) H_k ) * U with U the diagonal matrix of the
\* normalization factors themselves.
C5_UnnormalizedByFactors ==
    \A t \in DOMAIN history : IsInverseTimesFactors(history[t], includedRows[t])

\* C5 amended: the covariance stored for prefix length k is
\* U * inverse( A + H_k^T diag( w_k ) H_k ) * U with U the diagonal matrix of the
\* reciprocals of the normalization factors (non-finite when the sum is singular).
C5_UnnormalizedByReciprocals ==
    \A t \in DOMAIN history : IsUnnormalizedInverse(history[t], includedRows[t])

C5_Witness ==
    /\ pc = "done"
    /\ \E t \in DOMAIN history :
          /\ history[t].den # 0
          /\ includedRows[t] >= 2
          /\ Len(normalizationFactors) = 2
          /\ \E r \in 1..includedRows[t] : timeOrderedWeights[r] = 2
          /\ \E a \in Parameters : normalizationFactors[a] = 2

InconsistentShapes ==
    \/ Cols(inverseAPriori) # Rows(inverseAPriori)
    \/ Cols(informationMatrix) # Cols(inverseAPriori)
    \/ Len(normalizationFactors) # Cols(inverseAPriori)
    \/ Rows(informationMatrix) # Len(diagonalOfWeightMatrix)

NothingComputed ==
    /\ timeOrder = << >>
    /\ orderedTimeVector = << >>
    /\ timeOrderedMatrix = << >>
    /\ timeOrderedWeights = << >>
    /\ iterations = 0
    /\ history = EmptyMap

\* C6: a non-square a-priori inverse covariance, an information matrix with a column
\* count other than the parameter count, a normalization vector of another length,
\* and a weight diagonal of a length other than the row count are each rejected with
\* an error at the first step, before anything is ordered or computed, and no map is
\* returned.
C6_RejectedBeforeAnyWork ==
    /\ [](InconsistentShapes
            => /\ pc \in {"start", "error"}
               /\ pc = "error" => error # ""
               /\ NothingComputed)
    /\ [][(InconsistentShapes /\ pc = "start") => pc' = "error"]_vars

C6_Witness ==
    /\ pc = "error"
    /\ Cols(inverseAPriori) = Rows(inverseAPriori)
    /\ Cols(informationMatrix) = Cols(inverseAPriori)
    /\ Len(normalizationFactors) = Cols(inverseAPriori)
    /\ Rows(informationMatrix) # Len(diagonalOfWeightMatrix)
    /\ error = "weights are inconsistent with partials"

\* C7: row i of the reindexed matrix is row timeOrder[ i ] of the information matrix,
\* the reindexed matrix keeps the N x M shape, and the weight diagonal is reordered
\* with the same order, so that every row keeps the weight it had.
C7_RowsAndWeightsReindexedAlike ==
    Ordered
    => /\ Len(timeOrder) = Rows(informationMatrix)
       /\ Rows(timeOrderedMatrix) = Rows(informationMatrix)
       /\ Len(timeOrderedWeights) = Rows(informationMatrix)
       /\ \A i \in 0..(Len(timeOrder) - 1) :
             /\ At(timeOrder, i) \in 0..(Rows(informationMatrix) - 1)
             /\ At(timeOrderedMatrix, i) = At(informationMatrix, At(timeOrder, i))
             /\ At(timeOrderedWeights, i) = At(diagonalOfWeightMatrix, At(timeOrder, i))

C7_Witness ==
    /\ pc = "loop"
    /\ \E i \in 0..(Len(timeOrder) - 1) :
          /\ At(timeOrder, i) # i
          /\ At(diagonalOfWeightMatrix, At(timeOrder, i)) # At(diagonalOfWeightMatrix, i)
          /\ At(informationMatrix, At(timeOrder, i)) # At(informationMatrix, i)

\* the number of scalar observations of the entries that precede link ends b of
\* observable a in map order
EntryOffset(a, b) ==
    TotalNumberOfObservations(measurementData, a - 1)
    + NumberOfObservationsOfLinks(measurementData[a].links,
                                  measurementData[a].size, b - 1)

Entries ==
    {e \in (1..Len(measurementData)) \X (1..MaxLinkEnds) :
        e[2] <= Len(measurementData[e[1]].links)}

EntryOf(e) == measurementData[e[1]].links[e[2]]

EntrySize(e) == measurementData[e[1]].size

ExpectedNumberOfObservations ==
    TotalNumberOfObservations(measurementData, Len(measurementData))

\* C8: the time vector is the concatenation over observable types and, within a type,
\* over link ends, of each entry's sample times, every sample time standing d times
\* in a row for an observable of dimension d.
C8_TimeVectorLayout ==
    pc \in {"times", "done"}
    => /\ Len(concatenatedTimes) = ExpectedNumberOfObservations
       /\ \A e \in Entries :
             \A s \in 1..Len(EntryOf(e).times) : \A c \in 1..EntrySize(e) :
                concatenatedTimes[EntryOffset(e[1], e[2]) + (s - 1) * EntrySize(e) + c]
                = EntryOf(e).times[s]

C8_Witness ==
    /\ pc = "times"
    /\ Len(measurementData) = 2
    /\ \E e \in Entries :
          /\ e[1] = 2
          /\ EntrySize(e) = 3
          /\ Len(EntryOf(e).times) = 2
          /\ Len(concatenatedTimes) = EntryOffset(e[1], e[2]) + 6

\* C9: the time vector and the measurement vector have the same length, the sum over
\* all entries of sample count x dimension, and every position belongs to the same
\* (observable type, link ends) entry in both.
C9_VectorsAligned ==
    pc = "done"
    => /\ Len(concatenatedTimes) = ExpectedNumberOfObservations
       /\ Len(concatenatedObservations) = ExpectedNumberOfObservations
       /\ \A e \in Entries :
             \A k \in 1..(Len(EntryOf(e).times) * EntrySize(e)) :
                LET j == EntryOffset(e[1], e[2]) + k
                IN  /\ concatenatedObservations[j] = EntryOf(e).observations[k]
                    /\ concatenatedObservations[j] = 10 * e[1] + e[2]
                    /\ \E s \in 1..Len(EntryOf(e).times) :
                          /\ concatenatedTimes[j] = EntryOf(e).times[s]
                          /\ (s - 1) * EntrySize(e) < k
                          /\ k <= s * EntrySize(e)

C9_Witness ==
    /\ pc = "done"
    /\ Cardinality(Entries) >= 3
    /\ \E e \in Entries : EntrySize(e) >= 2 /\ EntryOffset(e[1], e[2]) > 0
    /\ Len(concatenatedObservations) > MaxCollatedSamples

\* C10: the sort order is a bijection on 0..N-1, the sorted times are the time vector
\* read through that order and are non-decreasing, and reading the sorted times
\* through the inverse order gives back the time vector.
C10_SortOrderIsPermutation ==
    Ordered
    => LET times == GetConcatenatedTimeVector(measurementData)
           indices == 0..(Len(times) - 1)
       IN  /\ Len(timeOrder) = Len(times)
           /\ Len(orderedTimeVector) = Len(times)
           /\ \A i \in indices : At(timeOrder, i) \in indices
           /\ \A j \in indices : \E i \in indices : At(timeOrder, i) = j
           /\ \A i \in indices : At(orderedTimeVector, i) = At(times, At(timeOrder, i))
           /\ \A i \in indices :
                 i + 1 \in indices => At(orderedTimeVector, i) <= At(orderedTimeVector, i + 1)
           /\ \A j \in indices :
                 At(orderedTimeVector, CHOOSE i \in indices : At(timeOrder, i) = j)
                 = At(times, j)

C10_Witness ==
    /\ pc = "loop"
    /\ \E i \in 0..(Len(timeOrder) - 1) : At(timeOrder, i) # i
    /\ \E i \in 0..(Len(timeOrder) - 2) :
          At(orderedTimeVector, i) = At(orderedTimeVector, i + 1)

\* the call got past the shape checks of lines 184-206 and the reindexer was called
Reindexed == pc \notin {"start", "order"} /\ ~InconsistentShapes

NumberOfConcatenatedTimes == Len(GetConcatenatedTimeVector(measurementData))

\* C11: getTimeOrderedInformationMatrix throws the size error and hands back no matrix
\* whenever the number of concatenated times differs from the number of rows of the
\* information matrix, and never throws it when the two are equal.
C11_SizeMismatchRejected ==
    /\ (Reindexed /\ NumberOfConcatenatedTimes # Rows(informationMatrix))
       => /\ pc = "error"
          /\ error = "sizes incompatible"
          /\ timeOrderedMatrix = << >>
          /\ orderedTimeVector = << >>
          /\ history = EmptyMap
    /\ (Reindexed /\ NumberOfConcatenatedTimes = Rows(informationMatrix))
       => /\ error # "sizes incompatible"
          /\ Rows(timeOrderedMatrix) = Rows(informationMatrix)
    /\ error = "sizes incompatible"
       => NumberOfConcatenatedTimes # Rows(informationMatrix)

C11_Witness ==
    /\ pc = "error"
    /\ error = "sizes incompatible"
    /\ ~InconsistentShapes
    /\ Rows(informationMatrix) = NumberOfConcatenatedTimes + 1
    /\ NumberOfConcatenatedTimes >= 2

\* C12: when the sum a-priori inverse + H_k^T diag( w_k ) H_k of some step is singular,
\* the call ends with an error: no entry of the map is a matrix of non-finite values
\* and no map is returned.
C12_SingularSumRaisesError ==
    \A t \in DOMAIN history :
        /\ history[t].den # 0
        /\ Det(Matrix([a \in Parameters |->
                          [b \in Parameters |-> InformationSum(includedRows[t], a, b)]])) # 0

\* the last execution of the loop body extended the looked-up index through equal
\* times up to the last row
ExtensionReachedLastRow ==
    /\ iterations > 0
    /\ lookedUpIndex < currentIndex
    /\ currentIndex = NumberOfTimes - 1

AllWeightsZero == \A i \in 1..Len(diagonalOfWeightMatrix) : diagonalOfWeightMatrix[i] = 0

\* the fraction c is the inverse of the a-priori inverse covariance divided on both
\* sides by the normalization factors; non-finite exactly when that matrix is singular
IsUnnormalizedAPrioriCovariance(c) ==
    IF Det(inverseAPriori) = 0 THEN c.den = 0
    ELSE /\ c.den # 0
         /\ \A a \in Parameters : \A d \in Parameters :
               SumTo([b \in Parameters |->
                         inverseAPriori[a][b] * c.num[b][d] * normalizationFactors[b]
                         * normalizationFactors[d]],
                     Len(normalizationFactors))
               = Delta(a, d) * c.den

\* C14: when every weight is 0, every covariance of the map is the same matrix, the
\* inverse of the a-priori inverse covariance unnormalized like any other step,
\* whatever the information matrix and the number of rows included.
C14_ZeroWeightsGiveAPriori ==
    AllWeightsZero
    => \A t \in DOMAIN history :
          /\ IsUnnormalizedAPrioriCovariance(history[t])
          /\ \A u \in DOMAIN history : history[u] = history[t]

C14_Witness ==
    /\ pc = "done"
    /\ AllWeightsZero
    /\ Det(inverseAPriori) # 0
    /\ Cardinality(DOMAIN history) >= 2
    /\ \E t \in DOMAIN history, u \in DOMAIN history : includedRows[t] # includedRows[u]
    /\ \E i \in 1..Rows(informationMatrix), j \in 1..Cols(informationMatrix) :
          informationMatrix[i][j] # 0
    /\ \E a \in Parameters : normalizationFactors[a] # 1

\* the least n with n * step >= span, for span >= 0 and step > 0
Ceiling(span, step) == (span + step - 1) \div step

C16_PrefixGrowsKeysRepeatIdentically ==
    [][(outputTimeStep > 0 /\ pc = "loop" /\ pc' = "loop"
           /\ iterations' = iterations + 1)
       => LET key == At(orderedTimeVector, currentIndex')
          IN  /\ iterations > 0 => currentIndex' >= currentIndex
              /\ \E i \in 1..NumberOfTimes : orderedTimeVector[i] = key
              /\ DOMAIN history' = DOMAIN history \cup {key}
              /\ \A t \in DOMAIN history :
                    /\ t <= key
                    /\ history'[t] = history[t]
                    /\ includedRows[t] <= includedRows'[key]
              /\ includedRows'[key] = currentIndex' + 1]_vars

C16_Witness ==
    /\ pc = "done"
    /\ outputTimeStep > 0
    /\ iterations >= 3
    /\ Cardinality(DOMAIN history) = 2
    /\ NumberOfTimes >= 3

\* the observations have at least two distinct timestamps
TwoDistinctTimes ==
    LET times == GetConcatenatedTimeVector(measurementData)
    IN  \E i \in 1..Len(times), j \in 1..Len(times) : times[i] # times[j]

\* C17: outputTimeStep is not validated: with a step of 0 or below and two distinct
\* timestamps the shape checks pass, no error is raised and the loop is never left,
\* the output time staying below the last observation time.
C17_NonPositiveStepNeverReturns ==
    (outputTimeStep <= 0 /\ TwoDistinctTimes /\ ~InconsistentShapes)
    => /\ pc \in {"start", "order", "loop"}
       /\ error = ""
       /\ pc = "loop"
            => /\ LoopCondition(currentTime, outputTimeStep, orderedTimeVector)
               /\ currentTime = FirstObservationTime + iterations * outputTimeStep
               /\ currentTime <= FirstObservationTime

C17_Witness ==
    /\ pc = "loop"
    /\ outputTimeStep < 0
    /\ TwoDistinctTimes
    /\ iterations >= 3
    /\ DOMAIN history = {FirstObservationTime}

\* C18: when all observations have one timestamp the loop body is never executed and
\* an empty map is returned without an error, whatever the output time step.
C18_SingleTimestampReturnsEmptyMap ==
    (~TwoDistinctTimes /\ ~InconsistentShapes)
    => /\ pc # "error"
       /\ error = ""
       /\ iterations = 0
       /\ history = EmptyMap
       /\ pc = "loop"
            => ~LoopCondition(currentTime, outputTimeStep, orderedTimeVector)

C18_Witness ==
    /\ pc = "done"
    /\ ~TwoDistinctTimes
    /\ NumberOfTimes >= 3
    /\ Len(measurementData) >= 2
    /\ outputTimeStep < 0
    /\ history = EmptyMap

\* the calls that test whether the leg has been calculated
TestsCalculation(call) == call.name \in {"intermediatePoints", "maneuvers"}

\* the number of the first such call made, 0 if none has been made
FirstTestingCall ==
    LET made == {i \in 1..Len(legCalls) : TestsCalculation(legCalls[i])}
    IN  IF made = {} THEN 0 ELSE CHOOSE i \in made : \A j \in made : i <= j

\* C19: for a leg that starts uncalculated and whose departure body velocity has a
\* first component that is not NaN, calculateLeg is run once by the first call of
\* intermediatePoints or maneuvers and by no other call; after that call the velocity
\* after departure is the departure body velocity; and every call of maneuvers returns
\* exactly one maneuver, at the departure body position, at the starting time, with
\* the stored deltaV_.
C19_CalculatedOnceByFirstCall ==
    (pc = "leg" /\ ~IsNaN(departureBodyVelocity_[1]))
    => /\ Len(calculateLegCalls) = Len(legCalls)
       /\ \A i \in 1..Len(legCalls) :
             calculateLegCalls[i] = IF i = FirstTestingCall THEN 1 ELSE 0
       /\ IF FirstTestingCall = 0
          THEN IsNaN(velocityAfterDeparture_[1])
          ELSE velocityAfterDeparture_ = departureBodyVelocity_
       /\ (legCalls # << >> /\ legCalls[Len(legCalls)].name = "maneuvers")
          => /\ positionVector = << departureBodyPosition_ >>
             /\ timeVector = << legCalls[Len(legCalls)].startingTime >>
             /\ deltaVVector = << deltaV_ >>
             /\ deltaV_ = CalculateLeg.deltaV_

C19_Witness ==
    /\ pc = "leg"
    /\ ~IsNaN(departureBodyVelocity_[1])
    /\ Len(legCalls) = 3
    /\ legCalls[1].name = "updateDefiningVariables"
    /\ legCalls[2].name = "intermediatePoints"
    /\ legCalls[3].name = "maneuvers"
    /\ legCalls[3].startingTime = 1
    /\ calculateLegCalls = << 0, 1, 0 >>

====
